---- MODULE Spec2Model ----
(***************************************************************************)
(* Barrier.js: a counting barrier for callback-driven code.                *)
(*                                                                         *)
(* The model is the Barrier object of src/barrier.js (fields value and     *)
(* waiting), its methods aquire, release, wait and isSet, and the          *)
(* JavaScript call stack of the continuations that release and wait invoke *)
(* synchronously.  A continuation is a small script of calls on the same   *)
(* barrier, so re-entrant calls made during a drain are part of the model. *)
(* Exceptions are not caught by any continuation: a throw unwinds the      *)
(* whole stack back to the top-level caller.                               *)
(***************************************************************************)
EXTENDS Integers, Sequences, FiniteSets, TLC

\* Bounds of the model.
MaxInit == 1      \* largest n passed to the constructor
MaxArg == 2       \* largest n passed to aquire(n) / release(n)
MaxCalls == 4     \* number of top-level calls made by the environment

VARIABLES
  constructed,    \* TRUE iff `new Barrier(n)` returned an object
  value,          \* this.value
  waiting,        \* this.waiting: index 1 is JavaScript index 0
  stack,          \* running continuations, innermost last
  log             \* history: every call made and every continuation invoked

vars == <<constructed, value, waiting, stack, log>>

----------------------------------------------------------------------------
(* Continuations.  Each name stands for a callback whose body is the given  *)
(* sequence of calls on the barrier.                                        *)

NoFn == "-"

Call(m, args, fn) == [m |-> m, args |-> args, fn |-> fn]

Fns == {"nop", "acq", "rel", "acqrel", "waiter"}

Body(fn) ==
  CASE fn = "nop"    -> <<>>
    [] fn = "acq"    -> <<Call("aquire", <<>>, NoFn)>>
    [] fn = "rel"    -> <<Call("release", <<>>, NoFn)>>
    [] fn = "acqrel" -> <<Call("aquire", <<>>, NoFn), Call("release", <<>>, NoFn)>>
    [] fn = "waiter" -> <<Call("wait", <<>>, "nop")>>

\* Argument lists of aquire / release: none, or one integer (a negative
\* one, zero, or a positive one).
NumArgs == {<<>>} \cup {<<n>> : n \in {-1, 0, MaxArg}}

\* Argument lists of the constructor.
CtorArgs == {<<>>} \cup {<<n>> : n \in -1..MaxInit}

\* The calls the top-level program may make.  The arguments that wait
\* stores for the callback are chosen by the wait action.
EnvCalls ==
  {Call("aquire", a, NoFn) : a \in NumArgs}
    \cup {Call("release", a, NoFn) : a \in NumArgs}
    \cup {Call("wait", <<>>, f) : f \in Fns}

----------------------------------------------------------------------------
(* JavaScript helpers.                                                      *)

\* ToNumber of a boolean, as applied by a relational operator.
ToNumber(b) == IF b THEN 1 ELSE 0

\* Mutant: push instead of unshift.
unshiftAsPush(q, e) == Append(q, e)

\* Array.prototype.unshift: insert at index 0.
unshift(q, e) == <<e>> \o q

\* Mutant: shift instead of pop.
popAsShift(q) == [elem |-> q[1], rest |-> SubSeq(q, 2, Len(q))]

\* Mutant: the last element is read but not removed.
popNoRemove(q) == [elem |-> q[Len(q)], rest |-> q]

\* Array.prototype.pop: remove and return the last element.
pop(q) == [elem |-> q[Len(q)], rest |-> SubSeq(q, 1, Len(q) - 1)]

----------------------------------------------------------------------------
(* The methods of Barrier, as functions of the fields.                      *)

Undefined == "undefined"

\* Mutant: an initial count of 0 is rejected.
BarrierRejectsZero(args) ==
  IF Len(args) > 0 /\ args[1] <= 0
    THEN [threw |-> "RangeError", value |-> Undefined, waiting |-> Undefined]
    ELSE [threw |-> "none",
          value |-> IF Len(args) = 0 THEN 0 ELSE args[1],
          waiting |-> <<>>]

\* new Barrier(n)
Barrier(args) ==
  IF Len(args) > 0 /\ args[1] < 0
    THEN [threw |-> "RangeError", value |-> Undefined, waiting |-> Undefined]
    ELSE [threw |-> "none",
          value |-> IF Len(args) = 0 \/ args[1] = 0 THEN 0 ELSE args[1],
          waiting |-> <<>>]

\* Mutant: a count of 0 counts as set.
isSetNonNegative(v) == v >= 0

isSet(v) == v > 0

\* Mutant: an explicit 0 is rejected.
aquireBodyRejectsZero(v, args) ==
  IF Len(args) = 0
    THEN [threw |-> "none", value |-> v + 1]
    ELSE IF args[1] > 0
      THEN [threw |-> "none", value |-> v + args[1]]
      ELSE [threw |-> "RangeError", value |-> v]

\* aquire(n): the new value and what is returned, or the error thrown.
aquireBody(v, args) ==
  IF Len(args) = 0
    THEN [threw |-> "none", value |-> v + 1]
    ELSE IF args[1] >= 0
      THEN [threw |-> "none", value |-> v + args[1]]
      ELSE [threw |-> "RangeError", value |-> v]

\* `this.value >= n > 0` parses as `(this.value >= n) > 0`.
releaseArgOk(v, n) == ToNumber(v >= n) > 0

\* Mutant: the argument is validated before the barrier is tested.
releaseBodyArgsFirst(v, args) ==
  IF Len(args) = 1 /\ ~releaseArgOk(v, args[1])
    THEN [threw |-> "RangeError", value |-> v]
    ELSE IF ~isSet(v)
      THEN [threw |-> "Error", value |-> v]
      ELSE [threw |-> "none", value |-> v - (IF Len(args) = 0 THEN 1 ELSE args[1])]

\* Mutant: the barrier is not tested.
releaseBodyNoSetCheck(v, args) ==
  IF Len(args) = 0
    THEN [threw |-> "none", value |-> v - 1]
    ELSE IF releaseArgOk(v, args[1])
      THEN [threw |-> "none", value |-> v - args[1]]
      ELSE [threw |-> "RangeError", value |-> v]

\* Mutant: release(n) takes one unit whatever n is.
releaseBodyIgnoresN(v, args) ==
  IF ~isSet(v)
    THEN [threw |-> "Error", value |-> v]
    ELSE IF Len(args) = 0 \/ releaseArgOk(v, args[1])
      THEN [threw |-> "none", value |-> v - 1]
      ELSE [threw |-> "RangeError", value |-> v]

\* release(n) up to the drain loop: the new value, or the error thrown.
releaseBody(v, args) ==
  IF ~isSet(v)
    THEN [threw |-> "Error", value |-> v]
    ELSE IF Len(args) = 0
      THEN [threw |-> "none", value |-> v - 1]
      ELSE IF releaseArgOk(v, args[1])
        THEN [threw |-> "none", value |-> v - args[1]]
        ELSE [threw |-> "RangeError", value |-> v]

\* Mutant: the arguments for the callback are not stored.
waitEntryNoArgs(fn, args) == [args |-> <<>>, callback |-> fn]

\* The object that wait puts in the queue.
waitEntry(fn, args) == [args |-> args, callback |-> fn]

\* Mutant: the loop stops with one continuation left.
drainCondLeavesLast(v, q) == ~isSet(v) /\ Len(q) > 1

\* Mutant: the loop does not look at the counter.
drainCondAnyValue(v, q) == Len(q) > 0

\* The condition of release's while loop.
drainCond(v, q) == ~isSet(v) /\ Len(q) > 0

----------------------------------------------------------------------------
(* History records.                                                         *)

\* A call of method c.m with numeric arguments c.args (callback c.fn and
\* stored arguments cargs for wait), made at stack depth `depth` when the
\* counter was v; out is the error thrown on entry ("none" if none), ret the
\* value returned (<<>> if none).
CallEv(c, cargs, depth, v, out, ret) ==
  [kind |-> "call", m |-> c.m, args |-> c.args, fn |-> c.fn, cargs |-> cargs,
   depth |-> depth, value |-> v, out |-> out, ret |-> ret]

\* The invocation e.callback.apply(null, e.args) by method via, when the
\* counter was v.
InvokeEv(via, e, depth, v) ==
  [kind |-> "invoke", m |-> via, args |-> <<>>, fn |-> e.callback,
   cargs |-> e.args, depth |-> depth, value |-> v, out |-> "none", ret |-> <<>>]

IsCall(e, m) == e.kind = "call" /\ e.m = m
IsInvoke(e) == e.kind = "invoke"

\* Number of calls made by the top-level program so far.
TopCalls == Cardinality({i \in DOMAIN log : log[i].kind = "call" /\ log[i].depth = 0})

\* Every wait call passes its own ordinal as the argument for the callback,
\* so that each registration can be told from the others.
NextArgs == <<Cardinality({i \in DOMAIN log : IsCall(log[i], "wait")}) + 1>>

----------------------------------------------------------------------------
(* Control.                                                                 *)

Frame(e, via) == [fn |-> e.callback, cargs |-> e.args, pc |-> 1, via |-> via]

Top == stack[Len(stack)]

AtRest == stack = <<>>

\* The running continuation still has a call to make.
Running == stack /= <<>> /\ Top.pc <= Len(Body(Top.fn))

\* The running continuation has reached the end of its body.
Finished == stack /= <<>> /\ Top.pc > Len(Body(Top.fn))

\* The calls that can be made now: any, by the top-level program, or the
\* next one of the running continuation.
Pending ==
  IF AtRest
    THEN IF TopCalls < MaxCalls THEN EnvCalls ELSE {}
    ELSE IF Running THEN {Body(Top.fn)[Top.pc]} ELSE {}

\* The stack the callee returns to.
Caller == IF AtRest THEN <<>> ELSE [stack EXCEPT ![Len(stack)].pc = @ + 1]

\* Mutant: the loop empties the queue when it invokes a continuation.
DrainDropsRest(v, stk, lg) ==
  IF drainCond(v, waiting)
    THEN LET cb == pop(waiting).elem IN
         /\ waiting' = <<>>
         /\ stack' = Append(stk, Frame(cb, "release"))
         /\ log' = Append(lg, InvokeEv("release", cb, Len(stk), v))
    ELSE /\ waiting' = waiting
         /\ stack' = stk
         /\ log' = lg

\* release's loop, entered with value v from the frames stk, lg being the
\* history so far: either the next continuation is popped and invoked, or
\* the loop ends and release returns to its caller.
Drain(v, stk, lg) ==
  IF drainCond(v, waiting)
    THEN LET cb == pop(waiting).elem IN
         /\ waiting' = pop(waiting).rest
         /\ stack' = Append(stk, Frame(cb, "release"))
         /\ log' = Append(lg, InvokeEv("release", cb, Len(stk), v))
    ELSE /\ waiting' = waiting
         /\ stack' = stk
         /\ log' = lg

----------------------------------------------------------------------------
(* The state after construction.                                            *)

Init ==
  \E args \in CtorArgs :
    LET b == Barrier(args) IN
    /\ constructed = (b.threw = "none")
    /\ value = b.value
    /\ waiting = b.waiting
    /\ stack = <<>>
    /\ log = <<[kind |-> "new", m |-> "Barrier", args |-> args, fn |-> NoFn,
                cargs |-> <<>>, depth |-> 0, value |-> 0,
                out |-> b.threw, ret |-> <<>>]>>

----------------------------------------------------------------------------
(* The operations.                                                          *)

\* barrier.aquire(n)
aquire ==
  /\ constructed
  /\ \E c \in Pending :
       /\ c.m = "aquire"
       /\ LET r == aquireBody(value, c.args) IN
          /\ value' = r.value
          /\ stack' = IF r.threw = "none" THEN Caller ELSE <<>>
          /\ log' = Append(log, CallEv(c, <<>>, Len(stack), value, r.threw,
                                       IF r.threw = "none" THEN <<r.value>> ELSE <<>>))
  /\ UNCHANGED <<constructed, waiting>>

\* Mutant: a release that fails returns to its caller instead of throwing.
releaseSwallows ==
  /\ constructed
  /\ \E c \in Pending :
       /\ c.m = "release"
       /\ LET r == releaseBody(value, c.args)
              ev == CallEv(c, <<>>, Len(stack), value, r.threw, <<>>)
          IN
          /\ value' = r.value
          /\ IF r.threw = "none"
               THEN Drain(r.value, Caller, Append(log, ev))
               ELSE /\ stack' = Caller
                    /\ waiting' = waiting
                    /\ log' = Append(log, ev)
  /\ UNCHANGED constructed

\* barrier.release(n), up to the first continuation it invokes
release ==
  /\ constructed
  /\ \E c \in Pending :
       /\ c.m = "release"
       /\ LET r == releaseBody(value, c.args)
              ev == CallEv(c, <<>>, Len(stack), value, r.threw, <<>>)
          IN
          /\ value' = r.value
          /\ IF r.threw = "none"
               THEN Drain(r.value, Caller, Append(log, ev))
               ELSE /\ stack' = <<>>
                    /\ waiting' = waiting
                    /\ log' = Append(log, ev)
  /\ UNCHANGED constructed

\* barrier.wait(fn, args...), up to the invocation of fn
wait ==
  /\ constructed
  /\ \E c \in Pending :
       /\ c.m = "wait"
       /\ LET e == waitEntry(c.fn, NextArgs)
              ev == CallEv(c, NextArgs, Len(stack), value, "none", <<>>)
          IN
          IF isSet(value)
            THEN /\ waiting' = unshift(waiting, e)
                 /\ stack' = Caller
                 /\ log' = Append(log, ev)
            ELSE /\ waiting' = waiting
                 /\ stack' = Append(Caller, Frame(e, "wait"))
                 /\ log' = Append(Append(log, ev),
                                  InvokeEv("wait", e, Len(stack), value))
  /\ UNCHANGED <<constructed, value>>

\* Mutant: release tests the condition once (if, not while).
ReturnOnce ==
  /\ Finished
  /\ stack' = SubSeq(stack, 1, Len(stack) - 1)
  /\ UNCHANGED <<constructed, value, waiting, log>>

\* A continuation returns: to release's loop, which goes round again, or to
\* wait, which returns.
Return ==
  /\ Finished
  /\ LET stk == SubSeq(stack, 1, Len(stack) - 1) IN
     IF Top.via = "release"
       THEN Drain(value, stk, log)
       ELSE /\ stack' = stk
            /\ UNCHANGED <<waiting, log>>
  /\ UNCHANGED <<constructed, value>>

Next == aquire \/ release \/ wait \/ Return

Spec == Init /\ [][Next]_vars

----------------------------------------------------------------------------
(* Reading the history.                                                     *)

Evs == DOMAIN log

\* The event that a step adds first.
NewEv == log'[Len(log) + 1]

\* The step is a call of method m.
Stepped(m) == Len(log') > Len(log) /\ NewEv.kind = "call" /\ NewEv.m = m

\* The indices of the calls of method m, and those among the first i - 1 events.
CallsOf(m) == {i \in Evs : log[i].kind = "call" /\ log[i].m = m}
CallsBefore(m, i) == {j \in CallsOf(m) : j < i}

\* The indices of the invocations of the continuation registered with
\* arguments a, and of all invocations.
InvokesOf(a) == {i \in Evs : log[i].kind = "invoke" /\ log[i].cargs = a}
Invokes == {i \in Evs : log[i].kind = "invoke"}

\* The wait calls that found the barrier set, i.e. those that queued.
QueuedWaits == {i \in CallsOf("wait") : log[i].value > 0}

----------------------------------------------------------------------------
(* C1: end to end.                                                          *)

\* The history is: a clear barrier is constructed, aquire(k) with k >= 1 is
\* called, and then the top-level program only calls release(), at most k
\* times, and wait(cb), at most once and while the barrier is set, cb being
\* a callback that does not touch the barrier.
E2EScenario ==
  /\ constructed
  /\ Len(log) >= 2
  /\ log[1].args \in {<<>>, <<0>>}
  /\ log[2].kind = "call" /\ log[2].m = "aquire" /\ log[2].out = "none"
  /\ log[2].ret[1] >= 1
  /\ \A i \in 3..Len(log) :
       \/ log[i].kind = "call" /\ log[i].m = "release" /\ log[i].args = <<>>
       \/ log[i].kind = "call" /\ log[i].m = "wait" /\ log[i].fn = "nop"
            /\ log[i].value > 0
       \/ log[i].kind = "invoke"
  /\ Cardinality(CallsOf("wait")) <= 1
  /\ Cardinality(CallsOf("release")) <= log[2].ret[1]

\* C1: after aquire(k) on a clear barrier and a wait(cb) made while the
\* barrier is set, however the k release() calls and the wait call are
\* interleaved, cb is invoked at most once, every invocation of cb happens
\* with value = 0 and after all k releases, and once the k releases and the
\* wait have been made cb has been invoked exactly once.
C1_EndToEnd ==
  E2EScenario =>
    /\ Cardinality(Invokes) <= 1
    /\ \A i \in Invokes :
         /\ log[i].value = 0
         /\ Cardinality(CallsBefore("release", i)) = log[2].ret[1]
         /\ CallsBefore("wait", i) /= {}
    /\ (/\ stack = <<>>
        /\ Cardinality(CallsOf("release")) = log[2].ret[1]
        /\ Cardinality(CallsOf("wait")) = 1)
         => Cardinality(Invokes) = 1

\* aquire(2), release(), wait(cb), release(): cb has run once, after the
\* second release.
C1_Witness ==
  /\ E2EScenario
  /\ stack = <<>>
  /\ Len(log) = 6
  /\ log[2].args = <<2>>
  /\ log[3].m = "release" /\ log[4].m = "wait" /\ log[5].m = "release"
  /\ log[6].kind = "invoke" /\ log[6].cargs = log[4].cargs
  /\ value = 0 /\ waiting = <<>>

----------------------------------------------------------------------------
(* C2, C3: the order of a drain.                                            *)

\* The ordinals of the registrations that sit in the queue just before
\* event i: queued by an earlier wait and not invoked yet.
PendingAt(i) ==
  {log[w].cargs[1] :
     w \in {q \in QueuedWaits : q < i /\ \A k \in InvokesOf(log[q].cargs) : k >= i}}

\* The invocations made by release's loop.
DrainInvokes == {i \in Invokes : log[i].m = "release"}

\* The history starts: a barrier with count 1 is constructed, wait(W1),
\* wait(W2) and release() are called by the top-level program.
DrainOrderScenario ==
  /\ constructed
  /\ Len(log) >= 4
  /\ log[1].args = <<1>>
  /\ log[2].kind = "call" /\ log[2].m = "wait"
  /\ log[3].kind = "call" /\ log[3].m = "wait"
  /\ log[4].kind = "call" /\ log[4].m = "release" /\ log[4].args = <<>>

\* C2 as stated: the release of the scenario invokes W2 first, and every
\* invocation made by a drain is that of the most recently queued
\* continuation.
C2_LifoAsStated ==
  /\ DrainOrderScenario =>
       /\ log[5].kind = "invoke" /\ log[5].cargs = log[3].cargs
       /\ \A i \in InvokesOf(log[2].cargs) : i > 5
  /\ constructed =>
       \A i \in DrainInvokes : \A a \in PendingAt(i) : a <= log[i].cargs[1]

\* C2, amended: the drain is first-registered-first.  The release of the
\* scenario invokes W1 first, W2 only after it, and every invocation made by
\* a drain is that of the least recently queued continuation.
C2_FifoDrain ==
  /\ DrainOrderScenario =>
       /\ log[5].kind = "invoke" /\ log[5].cargs = log[2].cargs
       /\ \A i \in InvokesOf(log[3].cargs) : i > 5
  /\ constructed =>
       \A i \in DrainInvokes : \A a \in PendingAt(i) : a >= log[i].cargs[1]

\* wait(W1), wait(W2), release() with W1 and W2 that do not touch the
\* barrier: the one release has invoked W1 and then W2.
C2_Witness ==
  /\ DrainOrderScenario
  /\ stack = <<>>
  /\ Len(log) = 6
  /\ log[2].fn = "nop" /\ log[3].fn = "nop"
  /\ log[5].kind = "invoke" /\ log[5].cargs = log[2].cargs
  /\ log[6].kind = "invoke" /\ log[6].cargs = log[3].cargs
  /\ log[6].m = "release"

\* C3: of two continuations that were both queued, the one queued first is
\* called first: whenever the later one is invoked, the earlier one has
\* been invoked before.
C3_CalledInOrder ==
  constructed =>
    LET Q == QueuedWaits IN
    \A j \in Q : \A q \in InvokesOf(log[j].cargs) :
      \A i \in Q :
        i < j => \E p \in InvokesOf(log[i].cargs) : p < q

\* A nested drain: a continuation invoked by release has itself called
\* release, which invoked a continuation queued after it.
C3_Witness ==
  /\ constructed
  /\ \E q \in DrainInvokes :
       /\ log[q].depth >= 1
       /\ \E p \in DrainInvokes :
            /\ p < q
            /\ log[p].depth = 0
            /\ log[p].cargs[1] < log[q].cargs[1]
            /\ \E w \in QueuedWaits : log[w].cargs = log[q].cargs /\ w < p

----------------------------------------------------------------------------
(* C4, C5, C6: the checks of release.                                       *)

\* C4 as stated: release(n) with an explicit n on a set barrier succeeds
\* only when 0 < n <= value, and then value becomes value - n; for every
\* other n it throws RangeError and leaves value and the queue unchanged.
C4_ReleaseRangeAsStated ==
  [][(Stepped("release") /\ Len(NewEv.args) = 1 /\ value > 0) =>
       IF 0 < NewEv.args[1] /\ NewEv.args[1] <= value
         THEN NewEv.out = "none" /\ value' = value - NewEv.args[1]
         ELSE NewEv.out = "RangeError" /\ value' = value /\ waiting' = waiting]_vars

\* C5: release called when value = 0, with or without an argument, by the
\* top-level program or by a continuation during a drain, throws the
\* "Barrier not set" Error (never RangeError), leaves value and the queue
\* unchanged and invokes no continuation.
C5_ReleaseNotSet ==
  [][(Stepped("release") /\ value = 0) =>
       /\ NewEv.out = "Error"
       /\ value' = value
       /\ waiting' = waiting
       /\ log' = Append(log, NewEv)]_vars

\* release(MaxArg) was rejected on a clear barrier with "Barrier not set",
\* and so was a release() made by a continuation during a drain.
C5_Witness ==
  /\ constructed
  /\ \E i \in CallsOf("release") :
       /\ log[i].depth = 0 /\ log[i].value = 0
       /\ log[i].args = <<MaxArg>> /\ log[i].out = "Error"
  /\ \E i \in CallsOf("release") :
       /\ log[i].depth >= 1 /\ log[i].value = 0 /\ log[i].out = "Error"
  /\ stack = <<>>

\* What a call asks to take from the counter.
Taken(e) ==
  IF e.m = "release" THEN (IF e.args = <<>> THEN 1 ELSE e.args[1])
  ELSE IF e.m = "aquire" /\ e.args /= <<>> THEN 0 - e.args[1]
  ELSE 0

\* C6: value >= 0 in every state of a constructed barrier; a constructor
\* call with n < 0 constructs nothing; and a call that would drive value
\* below 0 throws and leaves value as it was.
C6_ValueNonNegative ==
  /\ [](/\ constructed => value >= 0
        /\ (log[1].args /= <<>> /\ log[1].args[1] < 0) =>
             ~constructed /\ log[1].out = "RangeError")
  /\ [][(/\ Len(log') > Len(log)
         /\ NewEv.kind = "call"
         /\ value - Taken(NewEv) < 0) =>
          NewEv.out /= "none" /\ value' = value]_vars

\* A release(n) with n > value > 0 was rejected, and so was a release made
\* by a continuation when value was 0; value is 0 now.
C6_Witness ==
  /\ constructed
  /\ \E i \in CallsOf("release") :
       /\ log[i].args /= <<>> /\ log[i].args[1] > log[i].value
       /\ log[i].value > 0 /\ log[i].out = "RangeError"
  /\ log[Len(log)].kind = "call" /\ log[Len(log)].m = "release"
  /\ log[Len(log)].depth >= 1 /\ log[Len(log)].out = "Error"
  /\ value = 0

----------------------------------------------------------------------------
(* C7: wait.                                                                *)

\* q with its k-th element removed.
Without(q, k) == SubSeq(q, 1, k - 1) \o SubSeq(q, k + 1, Len(q))

\* C7: wait(fn, args) on a set barrier adds exactly one entry (fn, args) to
\* the queue and invokes nothing; on a clear barrier it leaves the queue
\* alone and invokes fn(args) at once, fn running before wait returns; wait
\* does not change value.  A continuation registered on a clear barrier is
\* invoked exactly once, by that wait; one registered on a set barrier is
\* not invoked by wait.
C7_Wait ==
  /\ [](constructed =>
          \A i \in CallsOf("wait") :
            IF log[i].value > 0
              THEN \A k \in InvokesOf(log[i].cargs) : k > i /\ log[k].m = "release"
              ELSE InvokesOf(log[i].cargs) = {i + 1} /\ log[i + 1].m = "wait")
  /\ [][Stepped("wait") =>
          /\ value' = value
          /\ IF value > 0
               THEN /\ \E k \in 1..Len(waiting') :
                         /\ waiting'[k] = [args |-> NewEv.cargs, callback |-> NewEv.fn]
                         /\ Without(waiting', k) = waiting
                    /\ log' = Append(log, NewEv)
               ELSE /\ waiting' = waiting
                    /\ Len(log') = Len(log) + 2
                    /\ log'[Len(log') ].kind = "invoke"
                    /\ log'[Len(log')].fn = NewEv.fn
                    /\ log'[Len(log')].cargs = NewEv.cargs
                    /\ Len(stack') = NewEv.depth + 1
                    /\ stack'[Len(stack')].fn = NewEv.fn
                    /\ stack'[Len(stack')].cargs = NewEv.cargs
                    /\ stack'[Len(stack')].via = "wait"]_vars

\* A continuation running in a drain has called wait while value was 0 and
\* another continuation was still queued: the callback was invoked at once
\* and the queued one is still in the queue.
C7_Witness ==
  /\ constructed
  /\ \E i \in CallsOf("wait") :
       /\ log[i].depth >= 1
       /\ log[i].value = 0
       /\ i + 1 = Len(log)
       /\ log[i + 1].kind = "invoke" /\ log[i + 1].m = "wait"
       /\ PendingAt(i) /= {}
  /\ waiting /= <<>>

----------------------------------------------------------------------------
(* C8, C9: the drain stops when the barrier is set again.                   *)

\* The step is the return of a continuation to release's loop.
BackInLoop ==
  /\ stack /= <<>>
  /\ stack[Len(stack)].via = "release"
  /\ ~(Len(log') > Len(log) /\ NewEv.kind = "call")

\* The step pops the next continuation of the queue and invokes it.
PopsOne ==
  /\ waiting /= <<>>
  /\ waiting' = SubSeq(waiting, 1, Len(waiting) - 1)
  /\ Len(log') > Len(log)
  /\ log'[Len(log')].kind = "invoke"
  /\ log'[Len(log')].m = "release"
  /\ log'[Len(log')].cargs = waiting[Len(waiting)].args
  /\ log'[Len(log')].fn = waiting[Len(waiting)].callback

\* C8: the queue is drained one continuation at a time and only while
\* value = 0.  A release that leaves value = 0 with a non-empty queue invokes
\* one continuation; when that continuation returns the condition is tested
\* again: with value = 0 and a non-empty queue the next one is invoked, and
\* otherwise release returns and the queue is left as it is.  A release that
\* leaves value > 0 invokes nothing.
C8_DrainStops ==
  [][/\ Len(waiting') < Len(waiting) => value' = 0 /\ PopsOne
     /\ (Len(log') > Len(log) /\ log'[Len(log')].kind = "invoke"
           /\ log'[Len(log')].m = "release") => value' = 0 /\ PopsOne
     /\ (Stepped("release") /\ NewEv.out = "none") =>
          IF value' = 0 /\ waiting /= <<>>
            THEN PopsOne
            ELSE waiting' = waiting /\ log' = Append(log, NewEv)
     /\ BackInLoop =>
          IF value = 0 /\ waiting /= <<>>
            THEN PopsOne /\ Len(log') = Len(log) + 1
            ELSE /\ waiting' = waiting
                 /\ log' = log
                 /\ stack' = SubSeq(stack, 1, Len(stack) - 1)]_vars

\* A drain was stopped by a continuation that called aquire: release has
\* returned, value > 0 and a continuation is still queued.
C8_Witness ==
  /\ constructed
  /\ stack = <<>>
  /\ value > 0
  /\ waiting /= <<>>
  /\ Len(log) >= 2
  /\ log[Len(log)].kind = "call" /\ log[Len(log)].m = "aquire"
  /\ log[Len(log)].depth = 1 /\ log[Len(log)].out = "none"
  /\ log[Len(log) - 1].kind = "invoke" /\ log[Len(log) - 1].m = "release"

\* The history starts: a barrier with count 1 is constructed, wait(W1),
\* wait(W2) and release() are called by the top-level program, W1 being a
\* callback that calls aquire().
HaltScenario ==
  /\ DrainOrderScenario
  /\ log[2].fn = "acq"

\* C9: in the re-entrant halt scenario the release invokes W1 and not W2;
\* W1's aquire() makes value 1 and the drain stops there with W2 still
\* queued; W2 is invoked only by a later release that brings value to 0.
C9_ReentrantHalt ==
  HaltScenario =>
    /\ log[5].kind = "invoke" /\ log[5].cargs = log[2].cargs
    /\ log[5].m = "release" /\ log[5].value = 0
    /\ Len(log) >= 6 =>
         /\ log[6].kind = "call" /\ log[6].m = "aquire" /\ log[6].depth = 1
         /\ log[6].ret = <<1>>
    /\ Len(log) = 6 =>
         /\ value = 1
         /\ waiting = <<[args |-> log[3].cargs, callback |-> log[3].fn]>>
    /\ InvokesOf(log[2].cargs) = {5}
    /\ \A i \in InvokesOf(log[3].cargs) :
         /\ log[i].m = "release"
         /\ log[i].value = 0
         /\ \E j \in CallsOf("release") :
              /\ 6 < j /\ j < i
              /\ log[j].depth = 0 /\ log[j].out = "none"

\* The scenario, followed by a second release(): W2 has now been invoked.
C9_Witness ==
  /\ HaltScenario
  /\ stack = <<>>
  /\ Len(log) = 8
  /\ log[7].kind = "call" /\ log[7].m = "release" /\ log[7].depth = 0
  /\ log[8].kind = "invoke" /\ log[8].cargs = log[3].cargs
  /\ value = 0 /\ waiting = <<>>

----------------------------------------------------------------------------
(* C10: aquire.                                                             *)

----------------------------------------------------------------------------
(* C11: the round trip aquire(n); release(n).                               *)

\* The calls made by the top-level program.
TopLevel == {i \in Evs : log[i].kind = "call" /\ log[i].depth = 0}

\* The calls made by continuations that threw, and the aquire calls made
\* by continuations.
RaisedInside == {i \in Evs : log[i].kind = "call" /\ log[i].depth >= 1
                               /\ log[i].out /= "none"}
AquiredInside == {i \in Evs : log[i].kind = "call" /\ log[i].depth >= 1
                                /\ log[i].m = "aquire"}

\* Events i and j are the two calls of a round trip: the top-level program
\* called aquire(n) with n > 0 (or aquire(), n = 1), then only wait, then
\* release with the same argument.
RoundTrip(i, j) ==
  /\ i < j
  /\ log[j].kind = "call" /\ log[j].m = "release" /\ log[j].depth = 0
  /\ log[i].kind = "call" /\ log[i].m = "aquire" /\ log[i].depth = 0
  /\ log[i].args = log[j].args
  /\ log[i].args = <<>> \/ log[i].args[1] > 0
  /\ \A w \in (i + 1)..(j - 1) : log[w].kind = "call" /\ log[w].m = "wait"

\* The release of a round trip is accepted and takes value back to the
\* count c found by the aquire: c is the value seen by the first
\* continuation the release invokes, and the value left if it invokes none.
RoundTripRestores(i, j) ==
  /\ log[j].out = "none"
  /\ log[j].value = log[i].ret[1]
  /\ Len(log) = j => value = log[i].value
  /\ (Len(log) > j /\ log[j + 1].kind = "invoke") => log[j + 1].value = log[i].value
  /\ log[i].value > 0 => (Len(log) > j => log[j + 1].kind = "call")
  /\ (log[i].value = 0 /\ j > i + 1) =>
       /\ Len(log) > j
       /\ log[j + 1].kind = "invoke" /\ log[j + 1].m = "release"

\* The release of the round trip was the last top-level call and is over.
RoundTripOver(j) == stack = <<>> /\ \A t \in TopLevel : t <= j

\* Every continuation queued between the two calls has been invoked.
AllInvokedBetween(i, j) ==
  \A w \in (i + 1)..(j - 1) : InvokesOf(log[w].cargs) /= {}

----------------------------------------------------------------------------
(* C12: every registered continuation is invoked.                           *)

\* Registration w has been invoked as C12 says: at once by wait if the
\* barrier was clear, otherwise by a drain, with value = 0.
InvokedAsRegistered(w) ==
  IF log[w].value = 0
    THEN /\ w + 1 \in InvokesOf(log[w].cargs)
         /\ log[w + 1].m = "wait"
    ELSE \E k \in InvokesOf(log[w].cargs) :
           k > w /\ log[k].m = "release" /\ log[k].value = 0

\* The last top-level call was a release that returned (no call made during
\* it threw) and left value = 0.
ReleaseReturnedClear ==
  /\ stack = <<>>
  /\ value = 0
  /\ \E j \in TopLevel :
       /\ log[j].m = "release" /\ log[j].out = "none"
       /\ \A t \in TopLevel : t <= j
       /\ \A x \in RaisedInside : x < j

----------------------------------------------------------------------------
(* C13: the constructor and isSet.                                          *)

\* C13: new Barrier(n) with n >= 0, or with no argument (n = 0), gives an
\* object with value = n, an empty queue and isSet() = (n > 0); with n < 0
\* it throws RangeError and gives no object; and in every state isSet()
\* is exactly (value > 0).
C13_Construct ==
  /\ log[1].kind = "new"
  /\ IF log[1].args /= <<>> /\ log[1].args[1] < 0
       THEN ~constructed /\ log[1].out = "RangeError"
       ELSE /\ constructed /\ log[1].out = "none"
            /\ Len(log) = 1 =>
                 LET n == IF log[1].args = <<>> THEN 0 ELSE log[1].args[1] IN
                 /\ value = n
                 /\ waiting = <<>>
                 /\ stack = <<>>
                 /\ isSet(value) <=> n > 0
  /\ constructed => (isSet(value) <=> value > 0)

\* new Barrier(MaxInit) has just returned a set barrier.
C13_Witness ==
  /\ constructed
  /\ Len(log) = 1
  /\ log[1].args = <<MaxInit>>
  /\ value = MaxInit
  /\ isSet(value)
  /\ waiting = <<>>

----------------------------------------------------------------------------
(* C14: no continuation is lost, duplicated or invoked twice.               *)

\* The positions of the queue that hold the registration made by call w.
QueuedAs(w) ==
  {k \in DOMAIN waiting : /\ waiting[k].args = log[w].cargs
                          /\ waiting[k].callback = log[w].fn}

\* C14: every registration is invoked at most once; a registration that was
\* queued is in the queue exactly once until it is invoked, is invoked only
\* by release's loop, and is not in the queue afterwards; and the queue
\* holds nothing else.
C14_NoLossNoDup ==
  [](constructed =>
       /\ \A w \in CallsOf("wait") :
            LET invoked == InvokesOf(log[w].cargs) IN
            /\ Cardinality(invoked) <= 1
            /\ IF log[w].value > 0
                 THEN /\ \A k \in invoked : log[k].m = "release"
                      /\ Cardinality(QueuedAs(w)) =
                           (IF invoked = {} THEN 1 ELSE 0)
                 ELSE QueuedAs(w) = {}
       /\ \A k \in DOMAIN waiting :
            \E w \in QueuedWaits : k \in QueuedAs(w))

\* A continuation called aquire() and release() during a drain, which
\* started a nested drain; every queued continuation has been invoked once
\* and the queue is empty.
C14_Witness ==
  /\ constructed
  /\ stack = <<>>
  /\ waiting = <<>>
  /\ Cardinality(QueuedWaits) >= 2
  /\ \A w \in QueuedWaits : Cardinality(InvokesOf(log[w].cargs)) = 1
  /\ \E k \in DrainInvokes : log[k].depth >= 1
  /\ \E c \in CallsOf("release") : log[c].depth >= 1 /\ log[c].out = "none"
  /\ \A c \in Evs : log[c].out = "none"

----------------------------------------------------------------------------
(* C15: frame conditions.                                                   *)

\* C15: aquire changes only value: it leaves the queue alone and invokes
\* nothing.  wait does not change value.  release, and its loop when a
\* continuation returns, change the queue only by popping the continuation
\* they invoke.  value changes only in aquire and release, and the queue
\* only in wait and in release's loop.
C15_Frames ==
  [][/\ Stepped("aquire") =>
          /\ waiting' = waiting
          /\ log' = Append(log, NewEv)
          /\ Len(stack') <= Len(stack)
     /\ Stepped("wait") => value' = value
     /\ Stepped("release") => (waiting' = waiting \/ PopsOne)
     /\ BackInLoop => (value' = value /\ (waiting' = waiting \/ PopsOne))
     /\ value' /= value => (Stepped("aquire") \/ Stepped("release"))
     /\ waiting' /= waiting => (Stepped("wait") \/ PopsOne)]_vars

\* aquire(0) has just been called on a clear barrier that still had a
\* continuation queued: the queue is as it was and nothing runs.
C15_Witness ==
  /\ constructed
  /\ stack = <<>>
  /\ value = 0
  /\ waiting /= <<>>
  /\ log[Len(log)].kind = "call" /\ log[Len(log)].m = "aquire"
  /\ log[Len(log)].args = <<0>> /\ log[Len(log)].out = "none"
  /\ log[Len(log)].value = 0

----------------------------------------------------------------------------
(* C16: stranded waiters.                                                   *)

----------------------------------------------------------------------------
(* C17: the order of all invocations.                                       *)

\* Invocation i overtakes: a continuation registered earlier is still in
\* the queue when it happens.
Overtakes(i) == \E a \in PendingAt(i) : a < log[i].cargs[1]

\* C17 as stated: whenever a continuation is invoked, by a drain or at
\* once by wait, no continuation registered earlier is still queued.
C17_GlobalOrderAsStated ==
  constructed => \A i \in Invokes : ~Overtakes(i)

\* C17, amended: an invocation made by a drain never overtakes.  An
\* invocation made at once by wait, on a clear barrier, can overtake, and
\* does so only when wait is called by a continuation or after a call made
\* by a continuation has thrown.
C17_QueuedInOrder ==
  [](constructed =>
       \A i \in Invokes :
         Overtakes(i) =>
           /\ log[i].m = "wait"
           /\ log[i].value = 0
           /\ log[i].depth >= 1 \/ \E x \in RaisedInside : x < i)

\* During a drain a continuation called wait: its callback ran at once,
\* before a continuation that had been queued earlier, which the drain
\* invoked afterwards.  Nothing has thrown.
C17_Witness ==
  /\ constructed
  /\ stack = <<>>
  /\ waiting = <<>>
  /\ \A c \in Evs : log[c].out = "none"
  /\ \E i \in Invokes :
       /\ Overtakes(i)
       /\ log[i].m = "wait" /\ log[i].depth >= 1
       /\ \E k \in DrainInvokes : k > i /\ log[k].cargs[1] < log[i].cargs[1]

----------------------------------------------------------------------------
(* C18: an error raised during a drain.                                     *)

\* The step is a call made by a continuation that throws.
RaisesInside ==
  /\ stack /= <<>>
  /\ Len(log') > Len(log)
  /\ NewEv.kind = "call"
  /\ NewEv.out /= "none"

\* C18: when a call made by a continuation throws, the error leaves every
\* running continuation and the release that invoked them and reaches the
\* top-level caller; value keeps the decrement already made, the queue is
\* left as it is, in the same order, without the continuations that were
\* running, and nothing more is invoked: the next event is a call by the
\* top-level program.
C18_ErrorPath ==
  /\ [](constructed =>
          \A x \in RaisedInside :
            x < Len(log) => (log[x + 1].kind = "call" /\ log[x + 1].depth = 0))
  /\ [][RaisesInside =>
          /\ stack' = <<>>
          /\ value' = value
          /\ waiting' = waiting
          /\ log' = Append(log, NewEv)
          /\ \A f \in DOMAIN stack : \A k \in DOMAIN waiting' :
               waiting'[k].args /= stack[f].cargs]_vars

\* From count 1, a release() invoked a continuation whose release() threw
\* "Barrier not set": nothing is running, value is 0 and the continuation
\* queued behind it is still queued.
C18_Witness ==
  /\ constructed
  /\ stack = <<>>
  /\ value = 0
  /\ waiting /= <<>>
  /\ Len(log) >= 4
  /\ log[Len(log)].kind = "call" /\ log[Len(log)].m = "release"
  /\ log[Len(log)].depth = 1 /\ log[Len(log)].out = "Error"
  /\ log[Len(log) - 1].kind = "invoke" /\ log[Len(log) - 1].m = "release"
  /\ log[Len(log) - 2].kind = "call" /\ log[Len(log) - 2].m = "release"
  /\ log[Len(log) - 2].depth = 0 /\ log[Len(log) - 2].value = 1

====
